---------------------------- MODULE Spec2Model ----------------------------
(***************************************************************************)
(* Model of ilyamil/movie_recommender_system: the scrape-and-resume        *)
(* drivers (recsys/imdb_parser), the pipeline composer (recsys/core) and   *)
(* the ETL transforms (recsys/etl).                                        *)
(***************************************************************************)
EXTENDS Integers, Sequences, FiniteSets, TLC

(***************************************************************************)
(* Bounds of the model.                                                    *)
(***************************************************************************)
MaxTitles == 3          \* entities in the persisted metadata table
MaxChunk == 3           \* largest configured chunk_size
MaxGenres == 2          \* genre id files of DetailsCollector
MaxGenreTitles == 2     \* title ids per genre id file

\* metadata.py:16 sets BATCH_SIZE = 50; the model scales it down so that a
\* table of MaxTitles entities reaches the batch checkpoint.
BATCH_SIZE == 2

Titles == 1..MaxTitles
\* title_ids = [t for t, _ in movie_metadata.items()]: the table's key order
title_ids == [i \in Titles |-> i]

(***************************************************************************)
(* One row of the persisted metadata table.                                *)
(*   md  : the detail fields of collect_title_details are present          *)
(*   ot  : original_title is a non-empty string                            *)
(*   gn  : genres is a list, not null                                      *)
(*   flg : reviews_collected_flg is 1                                      *)
(***************************************************************************)
Row ==
    {r \in [md : BOOLEAN, ot : BOOLEAN, gn : BOOLEAN, flg : BOOLEAN] :
        (r.ot \/ r.gn) => r.md}
PendingRow == [md |-> FALSE, ot |-> FALSE, gn |-> FALSE, flg |-> FALSE]

VARIABLES
    metadata_file,      \* the persisted metadata table: Titles -> Row
    flg_column,         \* the table has the column reviews_collected_flg
    review_files,       \* titles whose <id>.csv review file exists
    overwritten,        \* history: titles whose persisted flag (.flg) or detail
                        \* fields (.md) a later write of the table removed
    i_pc,               \* IDCollector.collect: "idle", "returned"
    \* MetadataCollector.collect
    m_pc, m_chunk_size, movie_metadata, m_i, m_counter, m_session_counter,
    m_collected,        \* history: titles whose details were merged in this call
    m_requested,        \* history: titles a request was sent for in this call
    m_last, m_nodelay,  \* history: last network event, two requests w/o delay
    m_all,              \* what is_all_metadata_collected answered, or "none"
    \* ReviewCollector.collect
    r_pc, r_chunk_size, r_metadata, r_i, r_counter,
    r_requested,        \* history: titles a start request was sent for
    r_failed,           \* history: titles whose start request raised
    \* DetailsCollector.collect
    d_pc, d_genre, d_i, genre_details, d_saved,
    d_last, d_nodelay

driverVars == <<metadata_file, flg_column, review_files, overwritten, i_pc>>
metaVars == <<m_pc, m_chunk_size, movie_metadata, m_i, m_counter,
              m_session_counter, m_collected, m_requested, m_last, m_nodelay,
              m_all>>
reviewVars == <<r_pc, r_chunk_size, r_metadata, r_i, r_counter, r_requested,
                r_failed>>
detailsVars == <<d_pc, d_genre, d_i, genre_details, d_saved, d_last, d_nodelay>>
scrapeVars == <<driverVars, metaVars, reviewVars, detailsVars>>

\* ReviewCollector.collect_title_reviews, one call for one title
VARIABLES
    g_pc,               \* "new", "loop", "returned", "raised"
    g_n_reviews,        \* self._n_reviews, 0 when not configured
    g_pct_reviews,      \* self._pct_reviews, 0 when not configured
    g_pages,            \* the server's pages: the review containers of each
    g_res,              \* the page `res` holds, by its place in g_pages
    g_reviews_num_max,  \* the local of that name, or Unbound
    title_reviews,      \* the list returned in the end
    g_exc,              \* the exception that left the method, or "none"
    g_tick              \* parity of the number of loop iterations begun

pagingVars == <<g_pc, g_n_reviews, g_pct_reviews, g_pages, g_res,
                g_reviews_num_max, title_reviews, g_exc, g_tick>>

\* Pipeline.compose
VARIABLES
    p_pipeline,     \* self._pipeline: sequence of [step_name, step_func]
    p_data,         \* the argument of compose
    p_pc,           \* "new", "composing", "returned", "raised"
    p_result,       \* the local `result`
    p_k,            \* position of the for loop in self._pipeline
    p_invoked,      \* history: the step functions called, in call order
    p_exc,          \* the exception that left compose, or NoExc
    p_returned,     \* the value compose returned, or NoTable
    p_run,          \* 1 for the first compose, 2 for the one fed its output
    p_fed           \* what the second compose was fed: "output" or "main"

pipeVars == <<p_pipeline, p_data, p_pc, p_result, p_k, p_invoked, p_exc,
              p_returned, p_run, p_fed>>

\* CSVDataLoader.load_data and normalize
VARIABLES
    f_pc,           \* "new", "loaded", "done"
    f_files,        \* the files at the loader's path, each a list of rows
    f_batch,        \* the DataFrame load_data returned
    f_series,       \* df_.apply(parse_*, axis=1): the records of each row
    f_tables        \* the child tables normalize returns

fanVars == <<f_pc, f_files, f_batch, f_series, f_tables>>

\* one call of a function of recsys/etl/functions.py on plain values
VARIABLES
    c_fn,           \* the function called
    c_pc,           \* "new" before the call, "done" after it
    c_arg,          \* its arguments
    c_out           \* what it returned

callVars == <<c_fn, c_pc, c_arg, c_out>>

etlVars == <<pipeVars, fanVars, callVars>>
vars == <<scrapeVars, pagingVars, etlVars>>

(***************************************************************************)
(* Network events of one loop iteration, and the observer that records     *)
(* whether two requests follow each other with no delay in between.        *)
(***************************************************************************)
RECURSIVE NoDelayIn(_, _)
NoDelayIn(last, events) ==
    IF events = <<>> THEN FALSE
    ELSE (last = "request" /\ Head(events) = "request")
         \/ NoDelayIn(Head(events), Tail(events))

LastEvent(last, events) ==
    IF events = <<>> THEN last ELSE events[Len(events)]

(***************************************************************************)
(* MetadataCollector.collect                                               *)
(***************************************************************************)
MetaIdle ==
    /\ m_pc = "idle" /\ m_chunk_size = 0
    /\ movie_metadata = [t \in Titles |-> PendingRow]
    /\ m_i = 0 /\ m_counter = 0 /\ m_session_counter = 0
    /\ m_collected = {} /\ m_requested = {}
    /\ m_last = "none" /\ m_nodelay = FALSE /\ m_all = "none"

\* outcomes of send_request + collect_title_details for one title:
\* the request or the parse raises, or a details dict comes back whose
\* original_title is a string or None (collect_original_title swallows errors)
MetaOutcomes == {"raise", "title", "notitle"}

\* collect_genres: the list of the genre links of the page, or None when the
\* page has no genres block (the except clause returns None)
GenresOutcomes == {"genres", "nogenres"}

\* movie_metadata[title_id] |= details
MergeDetails(row, outcome, genres) ==
    [row EXCEPT !.md = TRUE, !.ot = (outcome = "title"),
                !.gn = (genres = "genres")]

\* try: send_request ... except: log; finally: sleep(self._sleep_time)
MetaIterEvents(outcome) == <<"request", "sleep">>

\* mutant: the resume test is dropped, every entity is fetched again
MetaSkips_Never(row) == FALSE

\* if movie_metadata[title_id].get('original_title', None): continue
MetaSkips(row) == row.ot

\* (counter == BATCH_SIZE) | (i == len(title_ids) - 1)
MetaCheckpointDue(counter, i) ==
    counter = BATCH_SIZE \/ i = Len(title_ids)

\* if session_counter >= self._chunk_size: return
MetaBudgetSpent(session, chunk) == session >= chunk

\* the collected records of the persisted table `old` that are gone in the
\* table `new` written over it, added to those lost before
Lost(before, old, new) ==
    [flg |-> before.flg \cup {t \in Titles : old[t].flg /\ ~new[t].flg},
     md |-> before.md \cup {t \in Titles : old[t].md /\ ~new[t].md}]
NothingLost == [flg |-> {}, md |-> {}]

\* one driver run per behaviour: a later pass is a run from the table an
\* earlier pass left, and DriversInit starts from every such table
NoDriverStarted ==
    m_pc = "idle" /\ r_pc = "idle" /\ d_pc = "idle" /\ i_pc = "idle"

\* collect(): read_json(...).T.to_dict(); counter = 0; session_counter = 0
MetaRead(chunk) ==
    /\ m_pc = "idle"
    /\ m_pc' = "loop" /\ m_chunk_size' = chunk
    /\ movie_metadata' = metadata_file
    /\ m_i' = 1 /\ m_counter' = 0 /\ m_session_counter' = 0
    /\ m_collected' = {} /\ m_requested' = {}
    /\ m_last' = "none" /\ m_nodelay' = FALSE
    /\ UNCHANGED <<m_all, driverVars, reviewVars, detailsVars, pagingVars,
                   etlVars>>

MetaStart(chunk) == NoDriverStarted /\ MetaRead(chunk)

\* the loop leaves its body by `continue`: the checkpoint test is not reached
MetaSkip ==
    /\ m_pc = "loop"
    /\ MetaSkips(movie_metadata[title_ids[m_i]])
    /\ m_pc' = IF m_i = Len(title_ids) THEN "returned" ELSE "loop"
    /\ m_i' = IF m_i = Len(title_ids) THEN m_i ELSE m_i + 1
    /\ UNCHANGED <<m_chunk_size, movie_metadata, m_counter, m_session_counter,
                   m_collected, m_requested, m_last, m_nodelay, m_all>>
    /\ UNCHANGED <<driverVars, reviewVars, detailsVars, pagingVars, etlVars>>

\* one iteration that sends the request: try / except / finally, then the
\* checkpoint and the chunk_size test
MetaFetch(outcome, genres) ==
    /\ m_pc = "loop"
    /\ ~MetaSkips(movie_metadata[title_ids[m_i]])
    /\ LET t == title_ids[m_i]
           ok == outcome # "raise"
           mem == IF ok
                  THEN [movie_metadata EXCEPT ![t] =
                                            MergeDetails(@, outcome, genres)]
                  ELSE movie_metadata
           counter == IF ok THEN m_counter + 1 ELSE m_counter
           save == MetaCheckpointDue(counter, m_i)
           session == IF save THEN m_session_counter + counter
                      ELSE m_session_counter
           stop == save /\ MetaBudgetSpent(session, m_chunk_size)
           events == MetaIterEvents(outcome)
       IN  /\ movie_metadata' = mem
           /\ m_counter' = IF save THEN 0 ELSE counter
           /\ m_session_counter' = session
           /\ metadata_file' = IF save THEN mem ELSE metadata_file
           /\ overwritten' = IF save THEN Lost(overwritten, metadata_file, mem)
                             ELSE overwritten
           /\ m_collected' = IF ok THEN m_collected \cup {t} ELSE m_collected
           /\ m_requested' = m_requested \cup {t}
           /\ m_nodelay' = (m_nodelay \/ NoDelayIn(m_last, events))
           /\ m_last' = LastEvent(m_last, events)
           /\ m_pc' = IF stop \/ m_i = Len(title_ids) THEN "returned" ELSE "loop"
           /\ m_i' = IF stop \/ m_i = Len(title_ids) THEN m_i ELSE m_i + 1
    /\ UNCHANGED <<m_chunk_size, m_all, flg_column, review_files, i_pc>>
    /\ UNCHANGED <<reviewVars, detailsVars, pagingVars, etlVars>>

(***************************************************************************)
(* ReviewCollector.collect                                                 *)
(***************************************************************************)
\* What one non-skipped title meets: the start request of
\* collect_title_reviews raises or answers; the pages hold no review or some;
\* DataFrame.to_csv and metadata.to_json raise or succeed.
ReviewOutcomes ==
    {[start |-> "raise", n |-> 0, csv |-> "none", json |-> "none"]}
    \cup {[start |-> "ok", n |-> 0, csv |-> "none", json |-> j] :
            j \in {"ok", "raise"}}
    \cup {[start |-> "ok", n |-> 1, csv |-> "raise", json |-> "none"]}
    \cup {[start |-> "ok", n |-> 1, csv |-> "ok", json |-> j] :
            j \in {"ok", "raise"}}

\* collect_title_reviews: the except clause around the start request only
\* logs, so `res` stays unbound and find_reviews_num(res) raises
\* UnboundLocalError out of the method; otherwise the list of reviews
collect_title_reviews(outcome) ==
    IF outcome.start = "raise"
    THEN [exc |-> "UnboundLocalError", reviews |-> 0]
    ELSE [exc |-> "none", reviews |-> outcome.n]

\* if metadata.at[title_id, 'reviews_collected_flg']: continue
ReviewSkips(row) == row.flg

\* if counter == self._chunk_size: return
ReviewBudgetSpent(counter, chunk) == counter = chunk

\* pct_reviews values of a configuration; 0 stands for a value not set
ConfigPcts == {0, 50, 100, 150}

\* the two tests at the end of __init__ that raise ValueError
RejectsConfig(n_reviews, pct_reviews) ==
    \/ ~(pct_reviews # 0 \/ n_reviews # 0)
    \/ pct_reviews # 0 /\ ~(0 <= pct_reviews /\ pct_reviews <= 100)

\* ReviewCollector.__init__: the fields are set from the config, the table is
\* read and, when it lacks the flag column, written back with the column at
\* 0 (a row's flg = FALSE stands for 0 and for a missing cell alike); then
\* the logger is made and n_reviews and pct_reviews are tested.  `json` is
\* what to_json does when it is called.
ReviewConstruct(chunk, n_reviews, pct_reviews, json) ==
    /\ NoDriverStarted
    /\ IF ~flg_column /\ json = "raise"
       THEN /\ r_pc' = "failed"
            /\ UNCHANGED <<flg_column, r_chunk_size>>
       ELSE /\ flg_column' = TRUE
            /\ r_pc' = IF RejectsConfig(n_reviews, pct_reviews)
                       THEN "rejected" ELSE "constructed"
            /\ r_chunk_size' = IF RejectsConfig(n_reviews, pct_reviews)
                               THEN r_chunk_size ELSE chunk
    /\ UNCHANGED <<metadata_file, review_files, overwritten, i_pc>>
    /\ UNCHANGED <<r_metadata, r_i, r_counter, r_requested, r_failed>>
    /\ UNCHANGED <<metaVars, detailsVars, pagingVars, etlVars>>

\* collect(): metadata = read_json(...); counter = 0
ReviewRead ==
    /\ r_pc = "constructed"
    /\ r_pc' = "loop"
    /\ r_metadata' = metadata_file
    /\ r_i' = 1 /\ r_counter' = 0 /\ r_requested' = {} /\ r_failed' = {}
    /\ UNCHANGED <<r_chunk_size, driverVars, metaVars, detailsVars, pagingVars,
                   etlVars>>

ReviewStart ==
    /\ m_pc = "idle" /\ d_pc = "idle" /\ i_pc = "idle"
    /\ ReviewRead

\* mutant: the table written holds this title's flag alone
SetFlag_OnlyThis(metadata, title_id) ==
    [t \in Titles |-> [metadata[t] EXCEPT !.flg = (t = title_id)]]

\* metadata.at[title_id, 'reviews_collected_flg'] = 1
SetFlag(metadata, title_id) == [metadata EXCEPT ![title_id].flg = TRUE]

ReviewSkip ==
    /\ r_pc = "loop"
    /\ ReviewSkips(r_metadata[title_ids[r_i]])
    /\ r_pc' = IF r_i = Len(title_ids) THEN "returned" ELSE "loop"
    /\ r_i' = IF r_i = Len(title_ids) THEN r_i ELSE r_i + 1
    /\ UNCHANGED <<r_chunk_size, r_metadata, r_counter, r_requested, r_failed>>
    /\ UNCHANGED <<driverVars, metaVars, detailsVars, pagingVars, etlVars>>

\* one iteration that calls collect_title_reviews, then the try block that
\* writes the review file, sets and persists the flag, then the budget test
ReviewFetch(outcome) ==
    /\ r_pc = "loop"
    /\ ~ReviewSkips(r_metadata[title_ids[r_i]])
    /\ LET t == title_ids[r_i]
           got == collect_title_reviews(outcome)
           csvDone == got.reviews > 0 /\ outcome.csv = "ok"
           flagSet == outcome.csv # "raise"
           saved == flagSet /\ outcome.json = "ok"
           mem == IF flagSet THEN SetFlag(r_metadata, t) ELSE r_metadata
           counter == IF saved THEN r_counter + 1 ELSE r_counter
           stop == ReviewBudgetSpent(counter, r_chunk_size)
       IN  /\ r_requested' = r_requested \cup {t}
           /\ IF got.exc # "none"
              THEN /\ r_pc' = "raised"
                   /\ r_failed' = r_failed \cup {t}
                   /\ UNCHANGED <<r_metadata, r_counter, r_i, driverVars>>
              ELSE /\ r_metadata' = mem
                   /\ r_counter' = counter
                   /\ review_files' = IF csvDone THEN review_files \cup {t}
                                      ELSE review_files
                   /\ metadata_file' = IF saved THEN mem ELSE metadata_file
                   /\ overwritten' =
                          IF saved THEN Lost(overwritten, metadata_file, mem)
                          ELSE overwritten
                   /\ UNCHANGED <<flg_column, i_pc>>
                   /\ r_failed' = r_failed
                   /\ r_pc' = IF stop \/ r_i = Len(title_ids)
                              THEN "returned" ELSE "loop"
                   /\ r_i' = IF stop \/ r_i = Len(title_ids)
                             THEN r_i ELSE r_i + 1
    /\ UNCHANGED r_chunk_size
    /\ UNCHANGED <<metaVars, detailsVars, pagingVars, etlVars>>

(***************************************************************************)
(* DetailsCollector.collect                                                *)
(***************************************************************************)
Genres == 1..MaxGenres

\* the title page request or the extraction raises; or the details are
\* collected, with the poster saved or its saving logged as failed
DetailsOutcomes == {"raise", "ok", "poster_failed"}

\* wait(min_delay, max_delay) is the last statement of the try block: an
\* exception before it goes to the except clause, which only logs
DetailsIterEvents(outcome) ==
    IF outcome = "raise" THEN <<"request">> ELSE <<"request", "wait">>

DetailsStart ==
    /\ NoDriverStarted
    /\ d_pc' = "loop" /\ d_genre' = 1 /\ d_i' = 1
    /\ genre_details' = <<>> /\ d_saved' = [g \in Genres |-> <<>>]
    /\ d_last' = "none" /\ d_nodelay' = FALSE
    /\ UNCHANGED <<driverVars, metaVars, reviewVars, pagingVars, etlVars>>

\* one title of the current genre; after the genre's last title write_csv
\* saves genre_details (fieldnames are inferred from data[0], so an empty
\* list raises IndexError out of collect)
DetailsFetch(outcome) ==
    /\ d_pc = "loop"
    /\ LET events == DetailsIterEvents(outcome)
           details == IF outcome = "raise" THEN genre_details
                      ELSE Append(genre_details, d_i)
           lastOfGenre == d_i = MaxGenreTitles
           lastGenre == d_genre = MaxGenres
       IN  /\ d_nodelay' = (d_nodelay \/ NoDelayIn(d_last, events))
           /\ d_last' = LastEvent(d_last, events)
           /\ IF ~lastOfGenre
              THEN /\ d_i' = d_i + 1
                   /\ genre_details' = details
                   /\ UNCHANGED <<d_pc, d_genre, d_saved>>
              ELSE IF details = <<>>
              THEN /\ d_pc' = "raised"
                   /\ genre_details' = details
                   /\ UNCHANGED <<d_i, d_genre, d_saved>>
              ELSE /\ d_saved' = [d_saved EXCEPT ![d_genre] = details]
                   /\ d_pc' = IF lastGenre THEN "returned" ELSE "loop"
                   /\ d_genre' = IF lastGenre THEN d_genre ELSE d_genre + 1
                   /\ d_i' = IF lastGenre THEN d_i ELSE 1
                   /\ genre_details' = IF lastGenre THEN details ELSE <<>>
    /\ UNCHANGED <<driverVars, metaVars, reviewVars, pagingVars, etlVars>>

(***************************************************************************)
(* IDCollector.collect and MetadataCollector.is_all_metadata_collected     *)
(***************************************************************************)
\* collect(): the identifiers are collected anew and the table is written
\* from them alone, one row per title with its main_genre; the result pages
\* list the titles they listed before
IdCollect ==
    /\ NoDriverStarted
    /\ i_pc' = "returned"
    /\ metadata_file' = [t \in Titles |-> PendingRow]
    /\ flg_column' = FALSE
    /\ overwritten' = Lost(overwritten, metadata_file, metadata_file')
    /\ UNCHANGED <<review_files, metaVars, reviewVars, detailsVars, pagingVars,
                   etlVars>>

\* 'genres' in metadata_df.columns: the details of a title are merged with
\* all their keys, so the column is there once any title has details
HasGenresColumn(table) == \E t \in Titles : table[t].md

\* is_all_metadata_collected: "True", "False", or the exception it raises;
\* metadata_df['genres'] in the line after the if/else is evaluated also
\* when the column is missing
is_all_metadata_collected(table) ==
    LET already_collected ==
            IF ~HasGenresColumn(table) THEN 0
            ELSE Cardinality({t \in Titles : table[t].gn})
    IN  IF ~HasGenresColumn(table) THEN "KeyError"
        ELSE IF Cardinality(Titles) = already_collected THEN "True"
        ELSE "False"

MetaCheck ==
    /\ NoDriverStarted
    /\ m_pc' = "checked"
    /\ m_all' = is_all_metadata_collected(metadata_file)
    /\ UNCHANGED <<m_chunk_size, movie_metadata, m_i, m_counter,
                   m_session_counter, m_collected, m_requested, m_last,
                   m_nodelay>>
    /\ UNCHANGED <<driverVars, reviewVars, detailsVars, pagingVars, etlVars>>

(***************************************************************************)
(* The drivers' specification: any persisted table an earlier pass can     *)
(* have left, then one run of one driver.                                  *)
(***************************************************************************)
ReviewIdle ==
    /\ r_pc = "idle" /\ r_chunk_size = 0
    /\ r_metadata = [t \in Titles |-> PendingRow]
    /\ r_i = 0 /\ r_counter = 0 /\ r_requested = {} /\ r_failed = {}

DetailsIdle ==
    /\ d_pc = "idle" /\ d_genre = 0 /\ d_i = 0
    /\ genre_details = <<>> /\ d_saved = [g \in Genres |-> <<>>]
    /\ d_last = "none" /\ d_nodelay = FALSE

\* No driver reads genres (is_all_metadata_collected alone does): the tables
\* a run starts from are those of earlier passes over pages that carry a
\* title and genres or neither; MetaFetch draws the two independently.
ScrapeInit ==
    /\ metadata_file \in [Titles -> Row]
    /\ \A t \in Titles : metadata_file[t].gn = metadata_file[t].ot
    /\ flg_column \in BOOLEAN
    /\ ~flg_column => \A t \in Titles : ~metadata_file[t].flg
    /\ review_files = {t \in Titles : metadata_file[t].flg}
    /\ overwritten = NothingLost /\ i_pc = "idle"
    /\ MetaIdle /\ ReviewIdle /\ DetailsIdle

DriversNext ==
    \/ \E c \in 1..MaxChunk : MetaStart(c)
    \/ MetaSkip
    \/ \E o \in MetaOutcomes, g \in GenresOutcomes : MetaFetch(o, g)
    \/ \E c \in 1..MaxChunk, n \in 0..1, pct \in ConfigPcts,
          json \in {"ok", "raise"} : ReviewConstruct(c, n, pct, json)
    \/ ReviewStart
    \/ ReviewSkip
    \/ \E o \in ReviewOutcomes : ReviewFetch(o)
    \/ DetailsStart
    \/ \E o \in DetailsOutcomes : DetailsFetch(o)
    \/ IdCollect
    \/ MetaCheck

(***************************************************************************)
(* Two driver processes on one metadata file: a MetadataCollector and a    *)
(* ReviewCollector, each calling collect once on a table in which earlier  *)
(* sessions completed some entities and left the others pending; their     *)
(* loop iterations interleave in any order.  Both have the largest         *)
(* chunk_size, and the title pages carry genres: neither bears on who      *)
(* overwrites whom.                                                        *)
(***************************************************************************)
DoneRow == [md |-> TRUE, ot |-> TRUE, gn |-> TRUE, flg |-> TRUE]

RaceInit ==
    /\ metadata_file \in [Titles -> {PendingRow, DoneRow}]
    /\ flg_column = TRUE
    /\ review_files = {t \in Titles : metadata_file[t].flg}
    /\ overwritten = NothingLost /\ i_pc = "idle"
    /\ MetaIdle /\ DetailsIdle
    /\ r_pc = "constructed" /\ r_chunk_size = MaxChunk
    /\ r_metadata = [t \in Titles |-> PendingRow]
    /\ r_i = 0 /\ r_counter = 0 /\ r_requested = {} /\ r_failed = {}

RaceNext ==
    \/ MetaRead(MaxChunk)
    \/ MetaSkip
    \/ \E o \in MetaOutcomes : MetaFetch(o, "genres")
    \/ ReviewRead
    \/ ReviewSkip
    \/ \E o \in ReviewOutcomes : ReviewFetch(o)

(***************************************************************************)
(* Claims about the drivers (checked under SpecDrivers).                   *)
(***************************************************************************)

\* C1: when MetadataCollector.collect has returned normally, every entity
\* whose metadata was collected during the call is in the persisted table
\* with the fields the call collected.
C1_CollectedArePersisted ==
    m_pc = "returned" =>
        \A t \in m_collected :
            /\ metadata_file[t].md
            /\ metadata_file[t] = movie_metadata[t]

\* C2: a failing request or extraction never aborts a driver loop: neither
\* collect ends by an exception, and an entity whose fetch raised stays
\* not collected in the table the loop works on.
C2_FailureNeverAbortsLoop ==
    /\ m_pc # "raised"
    /\ r_pc # "raised"
    /\ \A t \in m_requested \ m_collected : ~movie_metadata[t].ot
    /\ \A t \in r_failed : ~metadata_file[t].flg

\* C3: within one call of collect the number of entities collected never
\* exceeds chunk_size, in MetadataCollector and in ReviewCollector.
C3_SessionBudgetRespected ==
    /\ m_pc # "idle" => Cardinality(m_collected) <= m_chunk_size
    /\ r_pc # "idle" => r_counter <= r_chunk_size

\* C4: an entity the persisted table marks collected (non-empty
\* original_title for MetadataCollector, reviews_collected_flg for
\* ReviewCollector) gets no request in a driver pass and its persisted row
\* is left as it is by every step of the pass.
C4_StepKeepsCollected ==
    \A t \in Titles :
        /\ (m_pc = "loop" /\ metadata_file[t].ot) =>
               /\ t \notin (m_requested' \ m_requested)
               /\ metadata_file'[t] = metadata_file[t]
        /\ (r_pc = "loop" /\ metadata_file[t].flg) =>
               /\ t \notin (r_requested' \ r_requested)
               /\ metadata_file'[t] = metadata_file[t]

C4_CollectedEntitySkipped == [][C4_StepKeepsCollected]_vars

\* C4 witness: a MetadataCollector pass has ended that skipped an entity the
\* table marks collected and collected and persisted another one.
C4_Witness ==
    /\ m_pc = "returned"
    /\ \E t \in Titles : metadata_file[t].ot /\ t \notin m_requested
    /\ \E t \in m_collected : metadata_file[t].md

\* C5: in DetailsCollector.collect and MetadataCollector.collect no two
\* entity requests follow each other without a delay in between.
C5_DelayBetweenRequests == ~m_nodelay /\ ~d_nodelay

\* C21: nothing protects the metadata file against concurrent writers: with
\* two driver processes on the file a persisted flag or persisted detail
\* fields are overwritten by the other process's checkpoint, and this
\* happens only when both processes have read the table, never with one
\* writer.
C21_LostOnlyWithTwoWriters ==
    overwritten # NothingLost => (m_pc # "idle" /\ r_pc # "constructed")

\* C21 witness: a flag the ReviewCollector persisted was removed by the
\* MetadataCollector's checkpoint, and detail fields the MetadataCollector
\* persisted were removed by the ReviewCollector's write.
C21_Witness ==
    /\ overwritten.flg # {} /\ overwritten.md # {}
    /\ m_pc # "idle" /\ r_pc # "constructed"

\* C23: metadata collection completes: the test that makes collect skip an
\* entity (non-empty original_title) and the test by which
\* is_all_metadata_collected counts it as collected (non-null genres) agree
\* on every persisted table, so that a table collect has nothing left to do
\* on is one that is_all_metadata_collected answers True for.
C23_SkippedIsCounted ==
    \A t \in Titles : MetaSkips(metadata_file[t]) <=> metadata_file[t].gn

\* C24: collected state is monotonic: no run of IDCollector.collect,
\* MetadataCollector.collect, ReviewCollector.collect or ReviewCollector's
\* constructor removes a persisted flag or persisted detail fields.
C24_CollectedStaysCollected == overwritten = NothingLost

\* C29: is_all_metadata_collected never raises on a valid metadata table: it
\* answers False on a table without 'genres' column, and True exactly when
\* every entity has a non-null genres value.
C29_CheckNeverRaises ==
    m_pc = "checked" =>
        /\ m_all # "KeyError"
        /\ m_all = "True" <=> \A t \in Titles : metadata_file[t].gn

\* C30: when the constructor of ReviewCollector rejects its configuration
\* with ValueError, the persisted metadata file is as it was before the call.
C30_RejectingStepKeepsFile ==
    r_pc' = "rejected" =>
        /\ metadata_file' = metadata_file
        /\ flg_column' = flg_column

C30_RejectedConfigKeepsFile == [][C30_RejectingStepKeepsFile]_vars

\* C25: reviews_collected_flg = 1 is persisted for an entity only after its
\* review file was written: in every persisted state the flag implies that the
\* review file exists, and an entity whose fetch yielded no review stays not
\* collected.
C25_FlagImpliesReviewFile ==
    \A t \in Titles : metadata_file[t].flg => t \in review_files

(***************************************************************************)
(* ETL transforms at the level of a table's columns.  A value handed to a  *)
(* step is a DataFrame (kind "frame") or the dictionary of DataFrames that *)
(* normalize returns (kind "dict", cols = the columns of its 'main').      *)
(* Failures that depend on the cell values are outside this level.         *)
(***************************************************************************)
MaxSteps == 2           \* longest pipeline built from arbitrary steps

Frame(cols) == [kind |-> "frame", cols |-> cols]
TableDict(cols) == [kind |-> "dict", cols |-> cols]

\* the columns DetailsCollector.collect_title_details writes, as in the
\* movie_details fixture of tests/core/test_etl.py
RawDetailsCols ==
    {"title_id", "agg_rating", "original_title", "review_summary", "tagline",
     "details", "boxoffice", "techspecs", "actors", "imdb_recommendations"}

\* COLUMNS of reviews.py
RawReviewsCols ==
    {"title_id", "text", "rating", "date", "title", "author", "helpfulness"}

normalize_cols ==
    {"imdb_recommendations", "actors", "country_of_origin",
     "production_company"}

\* recsys/etl/functions.py, and the variants of recsys/core/preprocessing.py
\* (pre_*) and recsys/imdb_parser/etl.py (change_review_dtypes,
\* format_runtime)
EtlFuncs ==
    {"split_helpfulness_col", "correct_review_author",
     "cut_off_review_title_newline", "convert_to_date",
     "split_aggregate_rating_col", "extract_original_title",
     "split_review_summary", "extract_tagline", "extract_movie_details",
     "extract_boxoffice", "extract_runtime", "normalize",
     "pre_split_helpfulness_col", "pre_convert_to_date",
     "change_review_dtypes", "format_runtime"}

\* the source columns a function reads
Required(f) ==
    CASE f \in {"split_helpfulness_col", "pre_split_helpfulness_col"}
           -> {"helpfulness"}
      [] f = "correct_review_author" -> {"author"}
      [] f = "cut_off_review_title_newline" -> {"title"}
      [] f \in {"convert_to_date", "pre_convert_to_date"} -> {"date"}
      [] f = "split_aggregate_rating_col" -> {"agg_rating"}
      [] f = "extract_original_title" -> {"original_title"}
      [] f = "split_review_summary" -> {"review_summary"}
      [] f = "extract_tagline" -> {"tagline"}
      [] f = "extract_movie_details" -> {"details"}
      [] f = "extract_boxoffice" -> {"boxoffice"}
      [] f = "extract_runtime" -> {"techspecs"}
      [] f = "normalize" -> normalize_cols
      [] f = "change_review_dtypes" -> {"upvotes", "total_votes", "rating"}
      [] f = "format_runtime" -> {"runtime"}

\* whether the function starts with `if '<col>' not in df_raw.columns: raise`
Guarded(f) ==
    f \notin {"pre_split_helpfulness_col", "pre_convert_to_date",
              "change_review_dtypes"}

\* the columns the message of that ValueError names
NamedColumns(f) ==
    IF f = "format_runtime" THEN {"release_date"} ELSE Required(f)

\* the columns the function assigns
Adds(f) ==
    CASE f \in {"split_helpfulness_col", "pre_split_helpfulness_col"}
           -> {"upvotes", "total_votes"}
      [] f \in {"convert_to_date", "pre_convert_to_date"} -> {"review_date"}
      [] f = "split_aggregate_rating_col" -> {"rating", "total_votes"}
      [] f = "split_review_summary"
           -> {"user_reviews_num", "critic_reviews_num", "metascore"}
      [] f = "extract_movie_details"
           -> {"release_date", "country_of_origin", "production_company"}
      [] f = "extract_boxoffice" -> {"budget", "boxoffice"}
      [] f = "extract_runtime" -> {"runtime_min"}
      [] OTHER -> {}

\* mutant: the transforms keep their source columns
Drops_Nothing(f) == {}

\* the columns the function drops from its result
Drops(f) ==
    CASE f \in {"split_helpfulness_col", "pre_split_helpfulness_col"}
           -> {"helpfulness"}
      [] f \in {"convert_to_date", "pre_convert_to_date"} -> {"date"}
      [] f = "split_aggregate_rating_col" -> {"agg_rating"}
      [] f = "split_review_summary" -> {"review_summary"}
      [] f = "extract_movie_details" -> {"details"}
      [] f = "extract_runtime" -> {"techspecs"}
      [] f = "normalize" -> normalize_cols
      [] OTHER -> {}

\* functions.py:41 applies .str to the list ['author']
BodyExc(f) ==
    IF f = "correct_review_author" THEN "AttributeError" ELSE "none"

\* what the first statement raises on a value that is no DataFrame: a dict
\* has no .columns and no .astype, and its copy() takes no keyword
NotFrameExc(f) ==
    IF f \in {"pre_split_helpfulness_col", "pre_convert_to_date"}
    THEN "TypeError" ELSE "AttributeError"

\* no exception, no table
NoExc == [type |-> "none", names |-> {}]
NoTable == [kind |-> "none", cols |-> {}]

Raised(type, names) ==
    [exc |-> [type |-> type, names |-> names], out |-> NoTable]
Returned(value) == [exc |-> NoExc, out |-> value]

\* one call step_func(result)
Apply(f, x) ==
    IF x.kind # "frame" THEN Raised(NotFrameExc(f), {})
    ELSE IF ~(Required(f) \subseteq x.cols)
    THEN IF Guarded(f) THEN Raised("ValueError", NamedColumns(f))
         ELSE Raised("KeyError", Required(f) \ x.cols)
    ELSE IF BodyExc(f) # "none" THEN Raised(BodyExc(f), {})
    ELSE LET cols == (x.cols \cup Adds(f)) \ Drops(f)
         IN  Returned(IF f = "normalize" THEN TableDict(cols) ELSE Frame(cols))

(***************************************************************************)
(* Pipeline (recsys/core/pipeline.py; recsys/core/model.py holds the same  *)
(* class, whose compose starts from copy(data)).                           *)
(***************************************************************************)

\* Pipeline.__init__ on well-formed (name, func) tuples
NewPipeline(funcs) ==
    [i \in 1..Len(funcs) |-> [step_name |-> funcs[i], step_func |-> funcs[i]]]

\* RawDetailsTransformer.transform of recsys/etl/transformers.py
DetailsSteps ==
    <<"split_aggregate_rating_col", "split_review_summary",
      "extract_original_title", "extract_tagline", "extract_movie_details",
      "extract_boxoffice", "extract_runtime", "normalize">>

\* RawDetailsTransformer.transform of recsys/core/etl.py
CoreDetailsSteps == SubSeq(DetailsSteps, 1, 7)

\* RawReviewsTransformer.transform
ReviewsSteps == <<"split_helpfulness_col", "convert_to_date">>

SeqsUpTo(S, n) == UNION {[1..m -> S] : m \in 0..n}
NonEmptySeqs(S, n) == SeqsUpTo(S, n) \ {<<>>}

PipelineSteps ==
    {DetailsSteps, CoreDetailsSteps, ReviewsSteps}
    \cup SeqsUpTo(EtlFuncs, MaxSteps)

\* the tables a loader hands in: the raw schemas, each also with one
\* column missing, and the raw details with the further scraped columns
InputTables ==
    {Frame(RawDetailsCols \ d) : d \in {{}} \cup {{c} : c \in RawDetailsCols}}
    \cup {Frame(RawReviewsCols \ d) :
            d \in {{}} \cup {{c} : c \in RawReviewsCols}}
    \cup {Frame(RawDetailsCols \cup {"storyline", "certificate"})}

\* mutant: the loop walks self._pipeline from its end
StepAt_Reversed(pipeline, k) == pipeline[Len(pipeline) + 1 - k].step_func

\* for step in self._pipeline: step_func = step['step_func']
StepAt(pipeline, k) == pipeline[k].step_func

\* result = data
ComposeBegin ==
    /\ p_pc = "new"
    /\ p_pc' = "composing" /\ p_result' = p_data /\ p_k' = 1
    /\ UNCHANGED <<p_pipeline, p_data, p_invoked, p_exc, p_returned, p_run,
                   p_fed>>
    /\ UNCHANGED <<scrapeVars, pagingVars, fanVars, callVars>>

\* result = step_func(result); an exception of the step leaves compose
ComposeStep ==
    /\ p_pc = "composing" /\ p_k <= Len(p_pipeline)
    /\ LET f == StepAt(p_pipeline, p_k)
           r == Apply(f, p_result)
       IN  /\ p_invoked' = Append(p_invoked, f)
           /\ IF r.exc # NoExc
              THEN /\ p_pc' = "raised" /\ p_exc' = r.exc
                   /\ UNCHANGED <<p_result, p_k>>
              ELSE /\ p_result' = r.out /\ p_k' = p_k + 1
                   /\ UNCHANGED <<p_pc, p_exc>>
    /\ UNCHANGED <<p_pipeline, p_data, p_returned, p_run, p_fed>>
    /\ UNCHANGED <<scrapeVars, pagingVars, fanVars, callVars>>

\* return result
ComposeReturn ==
    /\ p_pc = "composing" /\ p_k > Len(p_pipeline)
    /\ p_pc' = "returned" /\ p_returned' = p_result
    /\ UNCHANGED <<p_pipeline, p_data, p_result, p_k, p_invoked, p_exc, p_run,
                   p_fed>>
    /\ UNCHANGED <<scrapeVars, pagingVars, fanVars, callVars>>

\* the same pipeline composed again, on what the first compose returned or
\* on the 'main' table of the dictionary it returned
ComposeAgain(fed) ==
    /\ p_pc = "returned" /\ p_run = 1
    /\ fed = "main" => p_returned.kind = "dict"
    /\ p_data' = IF fed = "main" THEN Frame(p_returned.cols) ELSE p_returned
    /\ p_pc' = "new" /\ p_run' = 2 /\ p_fed' = fed
    /\ p_result' = NoTable /\ p_k' = 0 /\ p_invoked' = <<>>
    /\ p_exc' = NoExc /\ p_returned' = NoTable
    /\ UNCHANGED p_pipeline
    /\ UNCHANGED <<scrapeVars, pagingVars, fanVars, callVars>>

ComposeInit ==
    /\ p_pipeline \in {NewPipeline(fs) : fs \in PipelineSteps}
    /\ p_data \in InputTables
    /\ p_pc = "new" /\ p_result = NoTable /\ p_k = 0 /\ p_invoked = <<>>
    /\ p_exc = NoExc /\ p_returned = NoTable /\ p_run = 1 /\ p_fed = "input"

PipelineNext ==
    \/ ComposeBegin
    \/ ComposeStep
    \/ ComposeReturn
    \/ \E fed \in {"output", "main"} : ComposeAgain(fed)

(***************************************************************************)
(* Row fan-out: CSVDataLoader.load_data and normalize of                   *)
(* recsys/etl/functions.py on the rows of a batch.                         *)
(***************************************************************************)
MaxFiles == 2           \* per-genre files the loader concatenates
MaxFileRows == 2        \* rows of one file
MaxRowIds == 2          \* distinct title ids
MaxList == 2            \* longest multi-valued field of a row
MaxRank == 2            \* largest rank suffix of a reference path

\* A reference path '<path>[/]?ref_=..._<suffix>': the part before '?'
\* without its trailing slashes, the number of those slashes, and the
\* integer after the last '_'.
Ref(path, slashes, suffix) ==
    [path |-> path, slashes |-> slashes, suffix |-> suffix]

\* an href as the page gives it: '/name/nm1?ref_=...' or '/name/nm1/?ref_=...'
HrefSlashes == {0, 1}

\* the row of one title: actors is the dict name -> reference path in its
\* iteration order (names are distinct keys), imdb_recommendations a list of
\* reference paths, the other two lists of names
MakeRow(id, ranks, sa, sr, nc, np) ==
    [title_id |-> id,
     actors |-> [k \in 1..Len(ranks) |->
                   [name |-> k, ref |-> Ref(k, sa, ranks[k])]],
     imdb_recommendations |-> [k \in 1..Len(ranks) |-> Ref(k, sr, ranks[k])],
     country_of_origin |-> [k \in 1..nc |-> k],
     production_company |-> [k \in 1..np |-> k]]

\* the id lists of the per-genre files: a title is listed once per genre
\* and may be listed under several genres
FileIds ==
    {ids \in SeqsUpTo(1..MaxRowIds, MaxFileRows) :
        /\ Len(ids) >= 1
        /\ \A i, j \in 1..Len(ids) : i # j => ids[i] # ids[j]}

GenreFiles ==
    {fs \in SeqsUpTo(FileIds, MaxFiles) : Len(fs) >= 1}

\* nothing parsed yet
NoSeries ==
    [imdb_recommendations |-> <<>>, actors |-> <<>>,
     country_of_origin |-> <<>>, production_company |-> <<>>]
NoTables ==
    [main |-> <<>>, imdb_recommendations |-> <<>>, actors |-> <<>>,
     country_of_origin |-> <<>>, production_company |-> <<>>]

RECURSIVE Concat(_)
Concat(seqs) ==
    IF seqs = <<>> THEN <<>> ELSE Head(seqs) \o Concat(Tail(seqs))


\* ref.split('?')[0] + '/'
ActorId(ref) == [path |-> ref.path, slashes |-> ref.slashes + 1]

\* recomm.split('?')[0]
SuggestedTitleId(ref) == [path |-> ref.path, slashes |-> ref.slashes]

\* int(ref.split('_')[-1])
RankOf(ref) == ref.suffix

parse_actors(x) ==
    [k \in 1..Len(x.actors) |->
        [title_id |-> x.title_id,
         actor_id |-> ActorId(x.actors[k].ref),
         actor_name |-> x.actors[k].name,
         order_num |-> RankOf(x.actors[k].ref)]]

parse_recommendations(x) ==
    [k \in 1..Len(x.imdb_recommendations) |->
        [title_id |-> x.title_id,
         suggested_title_id |-> SuggestedTitleId(x.imdb_recommendations[k]),
         order_num |-> RankOf(x.imdb_recommendations[k])]]

\* for num, country in enumerate(countries): order_num = int(num + 1)
parse_countries(x) ==
    [k \in 1..Len(x.country_of_origin) |->
        [title_id |-> x.title_id,
         country |-> x.country_of_origin[k],
         order_num |-> k]]

parse_companies(x) ==
    [k \in 1..Len(x.production_company) |->
        [title_id |-> x.title_id,
         company |-> x.production_company[k],
         order_num |-> k]]

\* CSVDataLoader.load_data(union=True): concat(read_csv(p) for p in path)
LoadData ==
    /\ f_pc = "new"
    /\ f_batch' = Concat(f_files)
    /\ f_pc' = "loaded"
    /\ UNCHANGED <<f_files, f_series, f_tables>>
    /\ UNCHANGED <<scrapeVars, pagingVars, pipeVars, callVars>>

\* normalize: the four parse functions applied row by row, the records of
\* all rows concatenated in row order into one child table each
Normalize ==
    /\ f_pc = "loaded"
    /\ LET rows == 1..Len(f_batch)
           series ==
             [imdb_recommendations |->
                  [j \in rows |-> parse_recommendations(f_batch[j])],
              actors |-> [j \in rows |-> parse_actors(f_batch[j])],
              country_of_origin |->
                  [j \in rows |-> parse_countries(f_batch[j])],
              production_company |->
                  [j \in rows |-> parse_companies(f_batch[j])]]
       IN  /\ f_series' = series
           /\ f_tables' =
                [main |-> [j \in rows |-> f_batch[j].title_id],
                 imdb_recommendations |-> Concat(series.imdb_recommendations),
                 actors |-> Concat(series.actors),
                 country_of_origin |-> Concat(series.country_of_origin),
                 production_company |-> Concat(series.production_company)]
    /\ f_pc' = "done"
    /\ UNCHANGED <<f_files, f_batch>>
    /\ UNCHANGED <<scrapeVars, pagingVars, pipeVars, callVars>>

LoadInit ==
    /\ f_pc = "new"
    /\ \E ids \in GenreFiles, ranks \in SeqsUpTo(1..MaxRank, MaxList),
          sa \in HrefSlashes, sr \in HrefSlashes,
          nc \in 0..MaxList, np \in 0..MaxList :
          f_files = [i \in 1..Len(ids) |->
                       [j \in 1..Len(ids[i]) |->
                          MakeRow(ids[i][j], ranks, sa, sr, nc, np)]]
    /\ f_batch = <<>> /\ f_series = NoSeries /\ f_tables = NoTables

FanoutNext ==
    \/ LoadData
    \/ Normalize

(***************************************************************************)
(* ReviewCollector.collect_title_reviews: the start request and the        *)
(* load-more loop.  A review is named by its page and its place on it.     *)
(***************************************************************************)
MaxPages == 3           \* pages the server holds for a title
MaxPageReviews == 2     \* review containers on one page
MaxNReviews == 3        \* largest configured n_reviews

PctChoices == {0, 50, 100}

Unbound == [bound |-> FALSE, val |-> 0]
Bound(v) == [bound |-> TRUE, val |-> v]

\* find_reviews_num: the count in the page header, 0 when it cannot be read
RECURSIVE TotalReviews(_)
TotalReviews(pages) ==
    IF pages = <<>> THEN 0 ELSE Head(pages) + TotalReviews(Tail(pages))
find_reviews_num(pages, readable) ==
    IF readable THEN TotalReviews(pages) ELSE 0

\* if self._n_reviews: ... elif self._pct_reviews: ...
ReviewsNumMax(n_reviews, pct_reviews, reviews_num) ==
    IF n_reviews # 0 THEN Bound(n_reviews)
    ELSE IF pct_reviews # 0 THEN Bound((reviews_num * pct_reviews) \div 100)
    ELSE Unbound

\* soup.select('.review-container') of the page res holds
ReviewsBatch(pages, res) ==
    [k \in 1..pages[res] |-> [page |-> res, k |-> k]]

\* .load-more-data[data-key]: every page but the last carries a key
HasPaginationKey(pages, res) == res < Len(pages)

\* the start request and the lines up to the while loop
TitleStart(outcome, readable) ==
    /\ g_pc = "new"
    /\ IF outcome = "raise"
       THEN /\ g_pc' = "raised" /\ g_exc' = "UnboundLocalError"
            /\ UNCHANGED <<g_res, g_reviews_num_max>>
       ELSE /\ g_pc' = "loop" /\ g_res' = 1
            /\ g_reviews_num_max' =
                   ReviewsNumMax(g_n_reviews, g_pct_reviews,
                                 find_reviews_num(g_pages, readable))
            /\ UNCHANGED g_exc
    /\ UNCHANGED <<g_n_reviews, g_pct_reviews, g_pages, title_reviews, g_tick>>
    /\ UNCHANGED <<scrapeVars, etlVars>>

\* one iteration of `while load_another_reviews`; an iteration that leaves
\* every local as it was (a page without containers, the load-more request
\* raising) is still a step of the program: g_tick tells it from no step
TitlePage(link) ==
    /\ g_pc = "loop"
    /\ g_tick' = 1 - g_tick
    /\ LET grown == title_reviews \o ReviewsBatch(g_pages, g_res)
       IN  /\ title_reviews' = grown
           /\ IF ~g_reviews_num_max.bound
              THEN /\ g_pc' = "raised" /\ g_exc' = "UnboundLocalError"
                   /\ UNCHANGED g_res
              ELSE IF Len(grown) > g_reviews_num_max.val
              THEN g_pc' = "returned" /\ UNCHANGED <<g_res, g_exc>>
              ELSE IF ~HasPaginationKey(g_pages, g_res)
              THEN g_pc' = "returned" /\ UNCHANGED <<g_res, g_exc>>
              ELSE /\ g_pc' = "loop"
                   /\ g_res' = IF link = "ok" THEN g_res + 1 ELSE g_res
                   /\ UNCHANGED g_exc
    /\ UNCHANGED <<g_n_reviews, g_pct_reviews, g_pages, g_reviews_num_max>>
    /\ UNCHANGED <<scrapeVars, etlVars>>

TitleInit ==
    /\ g_pc = "new"
    /\ g_n_reviews \in 0..MaxNReviews
    /\ g_pct_reviews \in PctChoices
    /\ ~RejectsConfig(g_n_reviews, g_pct_reviews)
    /\ g_pages \in NonEmptySeqs(0..MaxPageReviews, MaxPages)
    /\ g_res = 0 /\ g_reviews_num_max = Unbound
    /\ title_reviews = <<>> /\ g_exc = "none" /\ g_tick = 0

PagingNext ==
    \/ \E outcome \in {"ok", "raise"}, readable \in BOOLEAN :
           TitleStart(outcome, readable)
    \/ \E link \in {"ok", "raise"} : TitlePage(link)

(***************************************************************************)
(* The functions of recsys/etl/functions.py that work on one value.  A     *)
(* Python str is a sequence of one-character strings; an Optional value is *)
(* a record that is either None or carries the value.                      *)
(***************************************************************************)
MaxStr == 4             \* longest string s
MaxAnchors == 2         \* longest list of anchors

None == [none |-> TRUE, text |-> <<>>]
Str(t) == [none |-> FALSE, text |-> t]

\* the offsets at which a occurs in s
Occurrences(s, a) ==
    {i \in 0..(Len(s) - Len(a)) : SubSeq(s, i + 1, i + Len(a)) = a}

\* a in s
Contains(s, a) == Occurrences(s, a) # {}

\* s.find(a)
Find(s, a) ==
    IF Occurrences(s, a) = {} THEN -1
    ELSE CHOOSE i \in Occurrences(s, a) : \A j \in Occurrences(s, a) : i <= j

\* mutant: the right boundary is the first occurrence of the next anchor
RFind_First(s, a) == Find(s, a)

\* s.rfind(a)
RFind(s, a) ==
    IF Occurrences(s, a) = {} THEN -1
    ELSE CHOOSE i \in Occurrences(s, a) : \A j \in Occurrences(s, a) : i >= j

\* s[l:r] for 0 <= l; r = -1 counts from the end as Python does
Slice(s, l, r) ==
    LET hi == IF r < 0 THEN Len(s) + r ELSE r
    IN  SubSeq(s, l + 1, IF hi > Len(s) THEN Len(s) ELSE hi)

\* s[l:]
SliceFrom(s, l) == SubSeq(s, l + 1, Len(s))

\* details[key] = value
DictSet(d, key, value) ==
    [k \in DOMAIN d \cup {key} |-> IF k = key THEN value ELSE d[k]]

\* mutant: the absent anchors are not written to the result
UpdateFromKeys_Skipped(details, empty_anchors) == details

\* details.update(**dict.fromkeys(empty_anchors))
UpdateFromKeys(details, empty_anchors) ==
    [k \in DOMAIN details \cup {empty_anchors[i] : i \in DOMAIN empty_anchors}
        |-> IF \E i \in DOMAIN empty_anchors : empty_anchors[i] = k
            THEN None ELSE details[k]]

\* for section_num in range(len(use_anchors)): ..., from section_num on
RECURSIVE Sections(_, _, _, _)
Sections(s, use_anchors, section_num, details) ==
    IF section_num > Len(use_anchors) THEN details
    ELSE LET start == use_anchors[section_num]
             left_loc == Find(s, start)
             value ==
               IF section_num # Len(use_anchors)
               THEN Slice(s, left_loc + Len(start),
                          RFind(s, use_anchors[section_num + 1]))
               ELSE SliceFrom(s, left_loc + Len(start))
         IN  Sections(s, use_anchors, section_num + 1,
                      DictSet(details, start, Str(value)))

extract_substrings_after_anchors(s, anchors) ==
    LET empty_anchors == SelectSeq(anchors, LAMBDA a : ~Contains(s, a))
        use_anchors == SelectSeq(anchors, LAMBDA a : Contains(s, a))
    IN  UpdateFromKeys(Sections(s, use_anchors, 1, <<>>), empty_anchors)

\* the characters of s: two that anchors are made of, one that is in none
Chars == {"a", "b", "x"}
Strings == SeqsUpTo(Chars, MaxStr)
\* section labels such as 'Release date', 'Countries of origin'
AnchorLabels == {<<"a">>, <<"b">>, <<"a", "b">>}

CallAnchors ==
    /\ c_fn = "extract_substrings_after_anchors" /\ c_pc = "new"
    /\ c_out' = extract_substrings_after_anchors(c_arg.s, c_arg.anchors)
    /\ c_pc' = "done"
    /\ UNCHANGED <<c_fn, c_arg>>
    /\ UNCHANGED <<scrapeVars, pagingVars, pipeVars, fanVars>>

(***************************************************************************)
(* split_helpfulness_col, in its four copies.                              *)
(***************************************************************************)
MaxRows == 2            \* rows of the column a function is applied to

DigitChars == <<"0", "1", "2", "3", "4", "5", "6", "7", "8", "9">>
IsDigit(c) == \E d \in 1..10 : DigitChars[d] = c
DigitValue(c) == (CHOOSE d \in 1..10 : DigitChars[d] = c) - 1

\* str(n)
RECURSIVE Decimal(_)
Decimal(n) ==
    IF n < 10 THEN <<DigitChars[n + 1]>>
    ELSE Decimal(n \div 10) \o <<DigitChars[(n % 10) + 1]>>

\* n printed with comma thousands separators, as the review page does
RECURSIVE Grouped(_)
Grouped(n) ==
    IF n < 1000 THEN Decimal(n)
    ELSE Grouped(n \div 1000)
         \o <<",", DigitChars[((n % 1000) \div 100) + 1],
              DigitChars[((n % 100) \div 10) + 1], DigitChars[(n % 10) + 1]>>

\* 'N out of M found this helpful'
Helpfulness(n, m, commas) ==
    LET Fmt(k) == IF commas THEN Grouped(k) ELSE Decimal(k)
    IN  Fmt(n) \o <<" ", "o", "u", "t", " ", "o", "f", " ">> \o Fmt(m)
        \o <<" ", "f", "o", "u", "n", "d", " ", "t", "h", "i", "s", " ",
             "h", "e", "l", "p", "f", "u", "l">>

\* .str.replace(',', '')
RemoveCommas(s) == SelectSeq(s, LAMBDA c : c # ",")

\* .str.extractall('(\d+)'): the maximal runs of digits, left to right
RECURSIVE DigitRuns(_, _)
DigitRuns(s, run) ==
    LET closed == IF run = <<>> THEN <<>> ELSE <<run>>
    IN  IF s = <<>> THEN closed
        ELSE IF IsDigit(Head(s))
             THEN DigitRuns(Tail(s), Append(run, Head(s)))
             ELSE closed \o DigitRuns(Tail(s), <<>>)

\* int('<digits>')
RECURSIVE ParseInt(_)
ParseInt(ds) ==
    IF ds = <<>> THEN 0
    ELSE 10 * ParseInt(SubSeq(ds, 1, Len(ds) - 1)) + DigitValue(ds[Len(ds)])

\* the nearest float32 of a non-negative integer: 24 bits of significand,
\* ties to even
RECURSIVE Ulp(_, _)
Ulp(n, step) == IF n \div step < 2^24 THEN step ELSE Ulp(n, 2 * step)
ToFloat32(n) ==
    LET step == Ulp(n, 1)
        q == n \div step
        r == n % step
        up == 2 * r > step \/ (2 * r = step /\ q % 2 = 1)
    IN  (IF up THEN q + 1 ELSE q) * step

\* the copies of split_helpfulness_col and the dtype of their .astype
HelpfulnessImpls ==
    {"etl/functions.py", "imdb_parser/etl.py", "core/etl.py",
     "core/preprocessing.py"}
HelpfulnessDtype(impl) ==
    IF impl = "imdb_parser/etl.py" THEN "float32" ELSE "int"

\* .astype(dtype) of one parsed number
AsType(dtype, digits) ==
    [dtype |-> dtype,
     val |-> IF dtype = "float32" THEN ToFloat32(ParseInt(digits))
             ELSE ParseInt(digits)]

\* a table whose shape the two-column assignment rejects
ShapeError == [raised |-> "ValueError", cols |-> {}, rows |-> <<>>]

split_helpfulness_col(impl, cols, helpfulness) ==
    LET matches == [i \in DOMAIN helpfulness |->
                      DigitRuns(RemoveCommas(helpfulness[i]), <<>>)]
        dtype == HelpfulnessDtype(impl)
    IN  IF \E i \in DOMAIN matches : Len(matches[i]) # 2 THEN ShapeError
        ELSE [raised |-> "none",
              cols |-> (cols \cup {"upvotes", "total_votes"})
                       \ {"helpfulness"},
              rows |-> [i \in DOMAIN matches |->
                          [upvotes |-> AsType(dtype, matches[i][1]),
                           total_votes |-> AsType(dtype, matches[i][2])]]]

\* vote counts: small, with separators, and past the float32 significand
VoteCounts == {0, 171, 1710, 16777217}

HelpfulnessColumn(arg) ==
    [i \in DOMAIN arg.votes |->
        Helpfulness(arg.votes[i].n, arg.votes[i].m, arg.commas)]

CallHelpfulness ==
    /\ c_fn = "split_helpfulness_col" /\ c_pc = "new"
    /\ c_out' = split_helpfulness_col(c_arg.impl, RawReviewsCols,
                                      HelpfulnessColumn(c_arg))
    /\ c_pc' = "done"
    /\ UNCHANGED <<c_fn, c_arg>>
    /\ UNCHANGED <<scrapeVars, pagingVars, pipeVars, fanVars>>

(***************************************************************************)
(* ReviewsETL.transform of recsys/imdb_parser/etl.py: the vote columns on  *)
(* their way through split_helpfulness_col and change_review_dtypes.       *)
(***************************************************************************)
Int16Max == 32767
Int16Min == 0 - 32768

\* the low 16 bits of v, read as a signed number
Wrap16(v) == ((v - Int16Min) % 65536) + Int16Min

\* .astype('int16') of one float32 cell: the value when int16 holds it; a
\* float out of the range of the target is undefined in the C cast numpy
\* makes, builds wrap it or give a limit of the range
AsInt16(v) ==
    IF Int16Min <= v /\ v <= Int16Max THEN {v}
    ELSE {Wrap16(v), Int16Min, Int16Max}

\* the int16 cells one row's votes can become
CastRow(row) ==
    {[upvotes |-> [dtype |-> "int16", val |-> u],
      total_votes |-> [dtype |-> "int16", val |-> t]] :
        u \in AsInt16(row.upvotes.val), t \in AsInt16(row.total_votes.val)}

RECURSIVE CastRows(_)
CastRows(rows) ==
    IF rows = <<>> THEN {<<>>}
    ELSE {<<r>> \o rest : r \in CastRow(Head(rows)),
                           rest \in CastRows(Tail(rows))}

\* df_raw.astype({'upvotes': 'int16', 'total_votes': 'int16', ...})
change_review_dtypes(table) ==
    IF table.raised # "none" THEN {table}
    ELSE {[table EXCEPT !.rows = rows] : rows \in CastRows(table.rows)}

\* the columns of a review file read back: to_csv wrote the index as well
ReviewFileCols == RawReviewsCols \cup {"Unnamed: 0"}

\* raw_data.pipe(split_helpfulness_col) ... .pipe(change_review_dtypes)
\*         .drop(['Unnamed: 0'], axis=1); the steps between the two leave the
\* vote columns alone
transform(helpfulness) ==
    LET split == split_helpfulness_col("imdb_parser/etl.py", ReviewFileCols,
                                       helpfulness)
        dated == IF split.raised # "none" THEN split
                 ELSE [split EXCEPT !.cols = (@ \cup Adds("convert_to_date"))
                                             \ Drops("convert_to_date")]
    IN  {IF t.raised # "none" THEN t
         ELSE [t EXCEPT !.cols = @ \ {"Unnamed: 0"}] :
            t \in change_review_dtypes(dated)}

\* vote counts of a review: small ones, the largest int16, and one past it
ReviewVotes == {0, 171, Int16Max, 40000}

CallTransform ==
    /\ c_fn = "transform" /\ c_pc = "new"
    /\ c_out' \in transform(HelpfulnessColumn(c_arg))
    /\ c_pc' = "done"
    /\ UNCHANGED <<c_fn, c_arg>>
    /\ UNCHANGED <<scrapeVars, pagingVars, pipeVars, fanVars>>

(***************************************************************************)
(* expand_short_form and split_aggregate_rating_col.  A float is kept as   *)
(* the exact decimal m * 10^e it was parsed from; the inputs are chosen so *)
(* that the double arithmetic of the code is exact on them (whole numbers  *)
(* of votes).                                                              *)
(***************************************************************************)
MaxShortForm == 3       \* longest argument of expand_short_form

Num(m, e) == [kind |-> "num", exc |-> "none", m |-> m, e |-> e]
NoneNum == [kind |-> "None", exc |-> "none", m |-> 0, e |-> 0]
RaisedNum(exc) == [kind |-> "raise", exc |-> exc, m |-> 0, e |-> 0]

\* short_forms, each multiplier as its power of ten
short_forms == [K |-> 3, M |-> 6, B |-> 9, T |-> 12]

\* float(t) accepts digits with at most one '.', after a '-' or not
IsNumeric(t) ==
    /\ \E i \in DOMAIN t : IsDigit(t[i])
    /\ \A i \in DOMAIN t : IsDigit(t[i]) \/ t[i] = "." \/ (t[i] = "-" /\ i = 1)
    /\ Cardinality({i \in DOMAIN t : t[i] = "."}) <= 1

\* float(t)
Float(t) ==
    IF ~IsNumeric(t) THEN RaisedNum("ValueError")
    ELSE LET dot == {i \in DOMAIN t : t[i] = "."}
             decimals == IF dot = {} THEN 0
                         ELSE Len(t) - (CHOOSE i \in dot : TRUE)
             digits == ParseInt(SelectSeq(t, IsDigit))
         IN  Num(IF t[1] = "-" THEN 0 - digits ELSE digits, 0 - decimals)

expand_short_form(string_num) ==
    IF string_num.none THEN NoneNum
    ELSE LET t == string_num.text
         IN  IF t = <<>> THEN RaisedNum("IndexError")    \* string_num[-1]
             ELSE LET last_char == t[Len(t)]
                      head == Float(SubSeq(t, 1, Len(t) - 1))
                  IN  IF last_char \notin DOMAIN short_forms THEN Float(t)
                      ELSE IF head.kind = "raise" THEN head
                      ELSE Num(head.m, head.e + short_forms[last_char])

ShortFormChars == {"3", "0", ".", "-", "K", "B", "x"}

CallExpand ==
    /\ c_fn = "expand_short_form" /\ c_pc = "new"
    /\ c_out' = expand_short_form(c_arg)
    /\ c_pc' = "done"
    /\ UNCHANGED <<c_fn, c_arg>>
    /\ UNCHANGED <<scrapeVars, pagingVars, pipeVars, fanVars>>

\* s.split(a)
RECURSIVE Split(_, _)
Split(s, a) ==
    IF ~Contains(s, a) THEN <<s>>
    ELSE <<SubSeq(s, 1, Find(s, a))>>
         \o Split(SubSeq(s, Find(s, a) + Len(a) + 1, Len(s)), a)

RatingAnchor == <<"/", "1", "0">>

\* np.int32
Int32Max == 2147483647
Int32Min == 0 - Int32Max - 1

RECURSIVE Div10(_, _)
Div10(n, k) == IF k = 0 THEN n ELSE Div10(n \div 10, k - 1)

\* m * 10^e <= Int32Max, for e >= 0
FitsInt32(q) == q.m <= Div10(Int32Max, q.e)

\* the values a float-to-int32 cast can give: the number itself, or, out of
\* range, what the platform's conversion instruction leaves
AsInt32(q) ==
    IF FitsInt32(q) THEN {q} ELSE {Num(Int32Min, 0), Num(Int32Max, 0)}

RatingImpls == {"etl/functions.py", "core/etl.py"}

\* df_.loc[~df_['agg_rating'].str.contains('/10'), 'agg_rating'] = None
\* (recsys/etl/functions.py only)
MaskUnrated(impl, agg_rating) ==
    [i \in DOMAIN agg_rating |->
        IF impl = "etl/functions.py" /\ ~Contains(agg_rating[i], RatingAnchor)
        THEN None ELSE Str(agg_rating[i])]

\* .str.split('/10', expand=True).values: one column per piece, None
\* where a row has fewer pieces
SplitExpand(column) ==
    LET pieces == [i \in DOMAIN column |->
                     IF column[i].none THEN <<>>
                     ELSE Split(column[i].text, RatingAnchor)]
        width == IF \A i \in DOMAIN column : column[i].none THEN 1
                 ELSE CHOOSE w \in 1..(MaxStr + MaxShortForm + 8) :
                        /\ \E i \in DOMAIN pieces : Len(pieces[i]) = w
                        /\ \A i \in DOMAIN pieces : Len(pieces[i]) <= w
    IN  [i \in DOMAIN column |->
            [k \in 1..width |->
                IF k <= Len(pieces[i]) THEN Str(pieces[i][k]) ELSE None]]

RatingRaised(exc) == [raised |-> exc, cols |-> {}, rows |-> <<>>]

\* the tables split_aggregate_rating_col can return
split_aggregate_rating_col(impl, cols, agg_rating) ==
    LET values == SplitExpand(MaskUnrated(impl, agg_rating))
        rows == DOMAIN agg_rating
        rating == [i \in rows |->
                     IF values[i][1].none THEN NoneNum
                     ELSE Float(values[i][1].text)]
        total_votes == [i \in rows |-> expand_short_form(values[i][2])]
        casts == [i \in rows |->
                    IF impl = "core/etl.py" THEN AsInt32(total_votes[i])
                    ELSE {total_votes[i]}]
    IN  IF \E i \in rows : Len(values[i]) # 2
        THEN {RatingRaised("ValueError")}
        ELSE IF \E i \in rows : total_votes[i].kind = "raise"
        THEN {RatingRaised(
                 (CHOOSE i \in rows : total_votes[i].kind = "raise"
                     /\ \A j \in rows : total_votes[j].kind = "raise" => i <= j)
                 .exc)}
        ELSE IF \E i \in rows : rating[i].kind = "raise"
        THEN {RatingRaised("ValueError")}
        ELSE IF impl = "core/etl.py"
                /\ \E i \in rows : total_votes[i].kind = "None"
        THEN {RatingRaised("TypeError")}
        ELSE {[raised |-> "none",
               cols |-> (cols \cup {"rating", "total_votes"}) \ {"agg_rating"},
               rows |-> [i \in rows |->
                           [rating |-> rating[i], total_votes |-> tv[i]]]] :
                 tv \in {f \in [rows -> UNION {casts[i] : i \in rows}] :
                            \A i \in rows : f[i] \in casts[i]}}

\* 'R/10<votes><suffix>' of a rated title: R in tenths, votes a whole number
RatingText(tenths) ==
    IF tenths % 10 = 0 THEN Decimal(tenths \div 10)
    ELSE Decimal(tenths \div 10) \o <<".">> \o Decimal(tenths % 10)
Suffixes == {<<>>, <<"K">>, <<"M">>, <<"B">>, <<"T">>}
RatedTitles == [rated : {TRUE}, tenths : {89, 100}, votes : {3, 99},
                suffix : Suffixes]
\* a title with no rating yet: the button text holds no '/10'
UnratedTitle == [rated |-> FALSE, tenths |-> 0, votes |-> 0, suffix |-> <<>>]

AggRating(t) ==
    IF t.rated
    THEN RatingText(t.tenths) \o RatingAnchor \o Decimal(t.votes) \o t.suffix
    ELSE <<"R", "a", "t", "e">>

CallRating ==
    /\ c_fn = "split_aggregate_rating_col" /\ c_pc = "new"
    /\ c_out' \in split_aggregate_rating_col(
                      c_arg.impl, RawDetailsCols,
                      [i \in DOMAIN c_arg.titles |-> AggRating(c_arg.titles[i])])
    /\ c_pc' = "done"
    /\ UNCHANGED <<c_fn, c_arg>>
    /\ UNCHANGED <<scrapeVars, pagingVars, pipeVars, fanVars>>

(***************************************************************************)
(* extract_runtime and convert_runtime_to_minutes.                         *)
(***************************************************************************)
RuntimeWord == <<"R", "u", "n", "t", "i", "m", "e">>
SoundWord == <<"S", "o", "u", "n", "d">>
ColorWord == <<"C", "o", "l", "o", "r">>

\* the alternatives of the pattern 'Runtime| |Sound|Color', in its order
RuntimeDelims == <<RuntimeWord, <<" ">>, SoundWord, ColorWord>>

\* re.split(pattern, s): at each offset the first alternative that matches
\* ends the running piece
RECURSIVE SplitAny(_, _, _)
SplitAny(s, delims, piece) ==
    IF s = <<>> THEN <<piece>>
    ELSE LET hit == {k \in DOMAIN delims :
                        /\ Len(delims[k]) <= Len(s)
                        /\ SubSeq(s, 1, Len(delims[k])) = delims[k]}
         IN  IF hit = {}
             THEN SplitAny(Tail(s), delims, Append(piece, Head(s)))
             ELSE LET d == delims[CHOOSE k \in hit : \A j \in hit : k <= j]
                  IN  <<piece>>
                      \o SplitAny(SubSeq(s, Len(d) + 1, Len(s)), delims, <<>>)

\* .replace('', '0')
ReplaceEmpty(cells) ==
    [k \in DOMAIN cells |-> IF cells[k] = <<>> THEN <<"0">> ELSE cells[k]]

\* int(t) succeeds on a non-empty string of digits
IsInt(t) == t # <<>> /\ \A i \in DOMAIN t : IsDigit(t[i])

RuntimeImpls == {"etl/functions.py", "core/etl.py"}

RuntimeValue(v) == [raised |-> "none", isnone |-> FALSE, val |-> v]
RuntimeNone == [raised |-> "none", isnone |-> TRUE, val |-> 0]
RuntimeRaised(exc) == [raised |-> exc, isnone |-> FALSE, val |-> 0]

\* recsys/etl/functions.py wraps the arithmetic in try/except and returns
\* None; recsys/core/etl.py lets the exception of int() out
convert_runtime_to_minutes(impl, hours, minutes) ==
    IF IsInt(hours) /\ IsInt(minutes)
    THEN RuntimeValue(ParseInt(hours) * 60 + ParseInt(minutes))
    ELSE IF impl = "etl/functions.py" THEN RuntimeNone
    ELSE RuntimeRaised("ValueError")

\* runtime_min of one row
extract_runtime(impl, techspecs) ==
    LET x == ReplaceEmpty(SplitAny(techspecs, RuntimeDelims, <<>>))
    IN  IF Len(x) < 4 THEN RuntimeRaised("KeyError")          \* x[3]
        ELSE convert_runtime_to_minutes(impl, x[2], x[4])

\* 'Runtime<H> hours <M> minutesSound mix...', either part possibly missing
TechSpecs(t) ==
    RuntimeWord
    \o (IF t.h > 0 THEN Decimal(t.h) \o <<" ", "h", "o", "u", "r", "s">>
        ELSE <<>>)
    \o (IF t.h > 0 /\ t.m > 0 THEN <<" ">> ELSE <<>>)
    \o (IF t.m > 0
        THEN Decimal(t.m) \o <<" ", "m", "i", "n", "u", "t", "e", "s">>
        ELSE <<>>)
    \o SoundWord \o <<" ", "m", "i", "x">>

Runtimes == {t \in [h : {0, 2}, m : {0, 32, 45}] : t.h > 0 \/ t.m > 0}

CallRuntime ==
    /\ c_fn = "extract_runtime" /\ c_pc = "new"
    /\ c_out' = extract_runtime(c_arg.impl, TechSpecs(c_arg.runtime))
    /\ c_pc' = "done"
    /\ UNCHANGED <<c_fn, c_arg>>
    /\ UNCHANGED <<scrapeVars, pagingVars, pipeVars, fanVars>>

(***************************************************************************)
(* split_with_capital_letter.                                              *)
(***************************************************************************)
MaxWords == 2           \* words of one phrase
MaxPhrases == 2         \* phrases concatenated into the argument

\* [A-Z]
UpperChars ==
    {"A", "B", "C", "D", "E", "F", "G", "H", "I", "J", "K", "L", "M", "N",
     "O", "P", "Q", "R", "S", "T", "U", "V", "W", "X", "Y", "Z"}

\* re.findall('[A-Z][^A-Z]*', x): each capital with the run of non-capitals
\* after it; what stands before the first capital is in no token
RECURSIVE FindTokens(_, _)
FindTokens(x, token) ==
    LET closed == IF token = <<>> THEN <<>> ELSE <<token>>
    IN  IF x = <<>> THEN closed
        ELSE IF Head(x) \in UpperChars
             THEN closed \o FindTokens(Tail(x), <<Head(x)>>)
             ELSE IF token = <<>> THEN FindTokens(Tail(x), <<>>)
             ELSE FindTokens(Tail(x), Append(token, Head(x)))

\* mutant: the token is used as it was found
Strip_Nothing(t) == t

\* t.strip()
RECURSIVE Strip(_)
Strip(t) ==
    IF t = <<>> THEN t
    ELSE IF Head(t) = " " THEN Strip(Tail(t))
    ELSE IF t[Len(t)] = " " THEN Strip(SubSeq(t, 1, Len(t) - 1))
    ELSE t

\* for token in tokens: ..., with the entities and the entity built so far
RECURSIVE JoinTokens(_, _, _)
JoinTokens(tokens, entities, entity) ==
    IF tokens = <<>> THEN entities
    ELSE LET token == Head(tokens)
             stoken == Strip(token)
             grown == IF Len(entity) # 0 THEN entity \o <<" ">> \o stoken
                      ELSE stoken
         IN  IF token[Len(token)] # " "
             THEN JoinTokens(Tail(tokens), Append(entities, grown), <<>>)
             ELSE JoinTokens(Tail(tokens), entities, grown)

split_with_capital_letter(x) == JoinTokens(FindTokens(x, <<>>), <<>>, <<>>)

\* words as in 'United', 'Kingdom': one capital, then no capital and no space
Words == {<<"U">>, <<"U", "n">>, <<"K", "n">>, <<"K", ".", "1">>}
Phrases == NonEmptySeqs(Words, MaxWords)

\* the words of a phrase with single spaces between them
RECURSIVE PhraseText(_)
PhraseText(words) ==
    IF Len(words) = 1 THEN words[1]
    ELSE words[1] \o <<" ">> \o PhraseText(Tail(words))

CallCapital ==
    /\ c_fn = "split_with_capital_letter" /\ c_pc = "new"
    /\ c_out' = split_with_capital_letter(
                    Concat([i \in DOMAIN c_arg |-> PhraseText(c_arg[i])]))
    /\ c_pc' = "done"
    /\ UNCHANGED <<c_fn, c_arg>>
    /\ UNCHANGED <<scrapeVars, pagingVars, pipeVars, fanVars>>

CallInit ==
    /\ c_pc = "new" /\ c_out = <<>>
    /\ \/ /\ c_fn = "extract_substrings_after_anchors"
          /\ c_arg \in [s : Strings, anchors : SeqsUpTo(AnchorLabels, MaxAnchors)]
       \/ /\ c_fn = "split_helpfulness_col"
          /\ c_arg \in [impl : HelpfulnessImpls, commas : BOOLEAN,
                        votes : NonEmptySeqs([n : VoteCounts, m : VoteCounts],
                                             MaxRows)]
       \/ /\ c_fn = "transform"
          /\ c_arg \in [commas : BOOLEAN,
                        votes : NonEmptySeqs({v \in [n : ReviewVotes,
                                                     m : ReviewVotes] :
                                                v.n <= v.m}, MaxRows)]
       \/ /\ c_fn = "expand_short_form"
          /\ c_arg \in {None}
                       \cup {Str(t) : t \in SeqsUpTo(ShortFormChars, MaxShortForm)}
       \/ /\ c_fn = "split_aggregate_rating_col"
          /\ c_arg \in [impl : RatingImpls,
                        titles : NonEmptySeqs(RatedTitles \cup {UnratedTitle},
                                              MaxRows)]

       \/ /\ c_fn = "extract_runtime"
          /\ c_arg \in [impl : RuntimeImpls, runtime : Runtimes]

       \/ /\ c_fn = "split_with_capital_letter"
          /\ c_arg \in SeqsUpTo(Phrases, MaxPhrases)

CallNext ==
    \/ CallCapital
    \/ CallAnchors
    \/ CallHelpfulness
    \/ CallTransform
    \/ CallExpand
    \/ CallRating
    \/ CallRuntime

(***************************************************************************)
(* Claims about the pipeline and the transforms (SpecPipeline).            *)
(***************************************************************************)
FuncsOf(pipeline) == [i \in 1..Len(pipeline) |-> pipeline[i].step_func]

\* f_n(...f_1(d)...), built from the outermost call inwards; an exception
\* of an inner call is the outcome of the whole expression
RECURSIVE Nested(_, _)
Nested(funcs, d) ==
    IF funcs = <<>> THEN Returned(d)
    ELSE LET n == Len(funcs)
             inner == Nested(SubSeq(funcs, 1, n - 1), d)
         IN  IF inner.exc # NoExc THEN inner ELSE Apply(funcs[n], inner.out)

\* C6: compose calls the steps in constructor order, each on the previous
\* step's result, and returns f_n(...f_1(d)...); when step k raises, that
\* exception leaves compose, steps 1..k are the only ones called, nothing
\* is returned and compose does nothing more.
C6_ComposeInOrder ==
    LET funcs == FuncsOf(p_pipeline)
        k == Len(p_invoked)
    IN  /\ k <= Len(funcs)
        /\ p_invoked = SubSeq(funcs, 1, k)
        /\ p_pc = "composing" =>
               Nested(SubSeq(funcs, 1, k), p_data) = Returned(p_result)
        /\ p_pc = "returned" =>
               /\ k = Len(funcs)
               /\ Nested(funcs, p_data) = Returned(p_returned)
        /\ p_pc = "raised" =>
               /\ k >= 1
               /\ Nested(SubSeq(funcs, 1, k - 1), p_data).exc = NoExc
               /\ Nested(SubSeq(funcs, 1, k), p_data)
                      = [exc |-> p_exc, out |-> NoTable]
               /\ p_exc # NoExc
               /\ p_returned = NoTable
               /\ ~ENABLED PipelineNext

\* C6 witness: a step in the middle of a pipeline raised, after at least
\* one step had returned and with steps left.
C6_Witness ==
    /\ p_pc = "raised"
    /\ Len(p_invoked) >= 2
    /\ Len(p_invoked) < Len(p_pipeline)

MissingAggRating == [type |-> "ValueError", names |-> {"agg_rating"}]

RerunEnded(steps, fed) ==
    /\ p_run = 2 /\ p_fed = fed
    /\ FuncsOf(p_pipeline) = steps
    /\ p_pc \in {"returned", "raised"}

C8_MissingColumnIsValueError ==
    (p_pc = "raised" /\ p_result.kind = "frame") =>
        LET f == p_invoked[Len(p_invoked)]
            missing == Required(f) \ p_result.cols
        IN  missing # {} =>
                /\ p_exc.type = "ValueError"
                /\ p_exc.names \cap missing # {}

(***************************************************************************)
(* Claims about the row fan-out (SpecFanout).                              *)
(***************************************************************************)
\* C9: for every row and every fan-out function there is one record per
\* element of the source collection, and the k-th record carries the row's
\* title_id and order_num = k.
C9_OrderNumIsPosition ==
    f_pc = "done" =>
        \A j \in 1..Len(f_batch) : \A c \in normalize_cols :
            LET recs == f_series[c][j]
            IN  /\ Len(recs) = Len(f_batch[j][c])
                /\ \A k \in 1..Len(recs) :
                       /\ recs[k].title_id = f_batch[j].title_id
                       /\ recs[k].order_num = k

\* C10: no child table of normalize holds two rows with the same
\* (title_id, order_num).
C10_NoDuplicateOrderNum ==
    f_pc = "done" =>
        \A c \in normalize_cols :
            \A a, b \in 1..Len(f_tables[c]) :
                a # b => \/ f_tables[c][a].title_id # f_tables[c][b].title_id
                         \/ f_tables[c][a].order_num # f_tables[c][b].order_num

\* C11: parse_actors yields actor_id = the reference path up to its first
\* '?', ending in exactly one '/', also when that part already ends in '/';
\* parse_recommendations yields suggested_title_id = the reference path up
\* to its first '?' with nothing appended.
C11_ActorIdEndsInOneSlash ==
    f_pc = "done" =>
        \A j \in 1..Len(f_batch) :
            /\ \A k \in 1..Len(f_series.actors[j]) :
                   f_series.actors[j][k].actor_id
                       = [path |-> f_batch[j].actors[k].ref.path,
                          slashes |-> 1]
            /\ \A k \in 1..Len(f_series.imdb_recommendations[j]) :
                   f_series.imdb_recommendations[j][k].suggested_title_id
                       = [path |-> f_batch[j].imdb_recommendations[k].path,
                          slashes |-> f_batch[j].imdb_recommendations[k].slashes]

(***************************************************************************)
(* Claims about the functions on one value (SpecExtract).                  *)
(***************************************************************************)
AnchorsDone == c_fn = "extract_substrings_after_anchors" /\ c_pc = "done"

AnchorSet(anchors) == {anchors[i] : i \in DOMAIN anchors}

\* C12: the keys of extract_substrings_after_anchors(s, anchors) are exactly
\* the anchors; an anchor that does not occur in s maps to None, an anchor
\* that occurs in s maps to a string, possibly empty, never None.
C12_EveryAnchorIsKey ==
    AnchorsDone =>
        /\ DOMAIN c_out = AnchorSet(c_arg.anchors)
        /\ \A a \in AnchorSet(c_arg.anchors) :
              IF \E i \in 0..Len(c_arg.s) :
                     /\ i + Len(a) <= Len(c_arg.s)
                     /\ \A j \in 1..Len(a) : c_arg.s[i + j] = a[j]
              THEN ~c_out[a].none
              ELSE c_out[a] = None

\* C12 witness: one anchor is absent from s, another occurs in s and its
\* text is the empty string.
C12_Witness ==
    /\ AnchorsDone
    /\ \E a, b \in AnchorSet(c_arg.anchors) :
          /\ c_out[a] = None
          /\ c_out[b] = Str(<<>>)

\* the present anchors, in the order of the anchors list
Present(s, anchors) ==
    SelectSeq(anchors, LAMBDA a : \E i \in 0..Len(s) :
                 /\ i + Len(a) <= Len(s)
                 /\ SubSeq(s, i + 1, i + Len(a)) = a)

\* C20: with the present anchors taken in the order of the anchors list, the
\* value of a present anchor a other than the last one is
\* s[find(a)+len(a) : rfind(b)], b being the next present anchor, and the
\* value of the last present anchor is s[find(a)+len(a) :]; an anchor listed
\* more than once has the value of its last place in the list.
C20_SectionBoundaries ==
    AnchorsDone =>
        LET s == c_arg.s
            use == Present(s, c_arg.anchors)
            n == Len(use)
            First(a) == CHOOSE i \in 0..Len(s) :
                           /\ SubSeq(s, i + 1, i + Len(a)) = a
                           /\ i + Len(a) <= Len(s)
                           /\ \A j \in 0..(i - 1) :
                                  SubSeq(s, j + 1, j + Len(a)) # a
            Last(b) == CHOOSE i \in 0..Len(s) :
                           /\ SubSeq(s, i + 1, i + Len(b)) = b
                           /\ i + Len(b) <= Len(s)
                           /\ \A j \in (i + 1)..Len(s) :
                                  \/ j + Len(b) > Len(s)
                                  \/ SubSeq(s, j + 1, j + Len(b)) # b
            Place(a) == CHOOSE k \in 1..n :
                           use[k] = a /\ \A m \in (k + 1)..n : use[m] # a
        IN  \A a \in AnchorSet(use) :
                LET from == First(a) + Len(a)
                IN  IF Place(a) = n
                    THEN c_out[a] = Str(SubSeq(s, from + 1, Len(s)))
                    ELSE c_out[a]
                           = Str(SubSeq(s, from + 1, Last(use[Place(a) + 1])))

\* C20 witness: two different anchors are present and the second one
\* occurs in s more than once.
C20_Witness ==
    /\ AnchorsDone
    /\ Len(c_arg.anchors) = 2
    /\ c_arg.anchors[1] # c_arg.anchors[2]
    /\ ~c_out[c_arg.anchors[1]].none
    /\ Find(c_arg.s, c_arg.anchors[2]) # RFind(c_arg.s, c_arg.anchors[2])
    /\ c_out[c_arg.anchors[1]].text # <<>>

\* C13: for helpfulness strings 'N out of M found this helpful', with or
\* without comma separators, every copy of split_helpfulness_col yields
\* upvotes = N and total_votes = M as integers, row by row, and its output
\* has no 'helpfulness' column.
C13_HelpfulnessSplit ==
    (c_fn = "split_helpfulness_col" /\ c_pc = "done") =>
        /\ c_out.raised = "none"
        /\ "helpfulness" \notin c_out.cols
        /\ {"upvotes", "total_votes"} \subseteq c_out.cols
        /\ Len(c_out.rows) = Len(c_arg.votes)
        /\ \A i \in DOMAIN c_arg.votes :
              /\ c_out.rows[i].upvotes
                     = [dtype |-> "int", val |-> c_arg.votes[i].n]
              /\ c_out.rows[i].total_votes
                     = [dtype |-> "int", val |-> c_arg.votes[i].m]

\* C28: ReviewsETL.transform keeps vote counts exact: a review with
\* helpfulness 'N out of M found this helpful', 0 <= N <= M, has upvotes = N
\* and total_votes = M in the transformed table, also above 32767.
C28_VotesExact ==
    (c_fn = "transform" /\ c_pc = "done") =>
        /\ c_out.raised = "none"
        /\ \A i \in DOMAIN c_arg.votes :
              /\ c_out.rows[i].upvotes.val = c_arg.votes[i].n
              /\ c_out.rows[i].total_votes.val = c_arg.votes[i].m

RatingDone == c_fn = "split_aggregate_rating_col" /\ c_pc = "done"

\* C14: for agg_rating strings 'R/10<votes><suffix>', suffix none, K, M, B
\* or T, split_aggregate_rating_col yields rating = R and total_votes =
\* votes * (1, 10^3, 10^6, 10^9, 10^12), also for products above 2^31 - 1.
C14_RatingAndVotes ==
    (RatingDone /\ \A i \in DOMAIN c_arg.titles : c_arg.titles[i].rated) =>
        /\ c_out.raised = "none"
        /\ Len(c_out.rows) = Len(c_arg.titles)
        /\ \A i \in DOMAIN c_arg.titles :
              LET t == c_arg.titles[i]
                  power == CASE t.suffix = <<>> -> 0
                             [] t.suffix = <<"K">> -> 3
                             [] t.suffix = <<"M">> -> 6
                             [] t.suffix = <<"B">> -> 9
                             [] t.suffix = <<"T">> -> 12
              IN  /\ c_out.rows[i].rating
                         = IF t.tenths % 10 = 0 THEN Num(t.tenths \div 10, 0)
                           ELSE Num(t.tenths, 0 - 1)
                  /\ c_out.rows[i].total_votes = Num(t.votes, power)

\* C15: rows whose agg_rating holds no '/10' are removed: every output row
\* has a rating, and there are as many output rows as input rows with '/10'.
C15_UnratedRowsRemoved ==
    RatingDone =>
        /\ c_out.raised = "none"
        /\ \A i \in DOMAIN c_out.rows : c_out.rows[i].rating.kind = "num"
        /\ Len(c_out.rows)
               = Cardinality({i \in DOMAIN c_arg.titles : c_arg.titles[i].rated})

\* the strings float() takes, with one of K, M, B, T after them or not
NumericShortForm(t) ==
    LET body == IF t # <<>> /\ t[Len(t)] \in {"K", "M", "B", "T"}
                THEN SubSeq(t, 1, Len(t) - 1) ELSE t
    IN  /\ \E i \in DOMAIN body : body[i] \in {"0", "3"}
        /\ \A i \in DOMAIN body : body[i] \in {"0", "3", "."}
        /\ \A i, j \in DOMAIN body : (body[i] = "." /\ body[j] = ".") => i = j

\* C16: expand_short_form returns None for None and for the empty string,
\* a number for a numeric string with an optional K/M/B/T suffix, and raises
\* only for a non-empty, non-numeric string.
C16_ExpandShortFormTotal ==
    (c_fn = "expand_short_form" /\ c_pc = "done") =>
        /\ (c_arg.none \/ c_arg.text = <<>>) => c_out = NoneNum
        /\ (~c_arg.none /\ NumericShortForm(c_arg.text)) => c_out.kind = "num"
        /\ c_out.kind = "raise" =>
               (~c_arg.none /\ c_arg.text # <<>>
                /\ ~NumericShortForm(c_arg.text))

\* C22: every number expand_short_form returns is non-negative, for every
\* string it accepts, and it returns None only when the source was missing,
\* empty or unparsable.
C22_NonNegativeOrNull ==
    (c_fn = "expand_short_form" /\ c_pc = "done") =>
        /\ c_out.kind = "num" => c_out.m >= 0
        /\ c_out.kind = "None" =>
               (c_arg.none \/ c_arg.text = <<>> \/ ~IsNumeric(c_arg.text))

\* C17: for a techspecs string stating H hours and/or M minutes,
\* extract_runtime yields runtime_min = 60 * H + M, a missing part counting
\* as 0.
C17_RuntimeInMinutes ==
    (c_fn = "extract_runtime" /\ c_pc = "done") =>
        c_out = RuntimeValue(60 * c_arg.runtime.h + c_arg.runtime.m)

C19_AtMostNReviews ==
    (g_pc = "returned" /\ g_n_reviews # 0) =>
        Len(title_reviews) <= g_n_reviews

\* C26: the pagination loop of collect_title_reviews terminates for every
\* title: every run of the method leaves the loop after finitely many
\* iterations, whatever the load-more requests do and whatever the pages hold.
C26_LoopTerminates == <>(g_pc \in {"returned", "raised"})

\* C27: the list collect_title_reviews returns holds each review of a fetched
\* page at most once.
C27_EachReviewOnce ==
    g_pc = "returned" =>
        \A i, j \in DOMAIN title_reviews :
            i # j => title_reviews[i] # title_reviews[j]

(***************************************************************************)
(* Specifications.  Each one runs one part of the program and holds the    *)
(* variables of the other parts at their initial values.                   *)
(***************************************************************************)
ScrapeIdle ==
    /\ metadata_file = [t \in Titles |-> PendingRow]
    /\ flg_column = FALSE /\ review_files = {}
    /\ overwritten = NothingLost /\ i_pc = "idle"
    /\ MetaIdle /\ ReviewIdle /\ DetailsIdle

PipeIdle ==
    /\ p_pipeline = <<>> /\ p_data = NoTable
    /\ p_pc = "new" /\ p_result = NoTable /\ p_k = 0 /\ p_invoked = <<>>
    /\ p_exc = NoExc /\ p_returned = NoTable /\ p_run = 1 /\ p_fed = "input"

FanIdle ==
    /\ f_pc = "new" /\ f_files = <<>> /\ f_batch = <<>>
    /\ f_series = NoSeries /\ f_tables = NoTables

CallIdle == c_fn = "none" /\ c_pc = "new" /\ c_arg = <<>> /\ c_out = <<>>

PagingIdle ==
    /\ g_pc = "new" /\ g_n_reviews = 0 /\ g_pct_reviews = 0 /\ g_pages = <<>>
    /\ g_res = 0 /\ g_reviews_num_max = Unbound
    /\ title_reviews = <<>> /\ g_exc = "none" /\ g_tick = 0

DriversInit == ScrapeInit /\ PipeIdle /\ FanIdle /\ CallIdle /\ PagingIdle
SpecDrivers == DriversInit /\ [][DriversNext]_vars

WritersInit == RaceInit /\ PipeIdle /\ FanIdle /\ CallIdle /\ PagingIdle
SpecWriters == WritersInit /\ [][RaceNext]_vars

PipelineInit == ComposeInit /\ ScrapeIdle /\ FanIdle /\ CallIdle /\ PagingIdle
SpecPipeline == PipelineInit /\ [][PipelineNext]_vars

FanoutInit == LoadInit /\ ScrapeIdle /\ PipeIdle /\ CallIdle /\ PagingIdle
SpecFanout == FanoutInit /\ [][FanoutNext]_vars

ExtractInit == CallInit /\ ScrapeIdle /\ PipeIdle /\ FanIdle /\ PagingIdle
SpecExtract == ExtractInit /\ [][CallNext]_vars

PagingInit == TitleInit /\ ScrapeIdle /\ PipeIdle /\ FanIdle /\ CallIdle
SpecPaging == PagingInit /\ [][PagingNext]_vars

\* the method runs on: a step that is possible is taken in the end
SpecPagingRuns == SpecPaging /\ WF_vars(PagingNext)

=============================================================================
